---- MODULE Spec2Model ----
(***************************************************************************)
(* JSONResponseValidator (packages/alphawave/src/JSONResponseValidator.ts) *)
(* as a state machine: one validator instance, built by its constructor,   *)
(* on which callers invoke validateResponse.                               *)
(*                                                                         *)
(* Strings are sequences of tokens.  The tokens ":" and " " and "," and    *)
(* "\n" are single characters; every other token is a run of characters    *)
(* that holds no colon and neither starts nor ends with a blank, so that   *)
(* split(':'), trim() and join() can be computed as JavaScript does.       *)
(***************************************************************************)
EXTENDS Integers, Sequences, FiniteSets, TLC

VARIABLES
    ctor,                 \* the arguments the constructor was called with
    schema,               \* this.schema
    missingJsonFeedback,  \* this.missingJsonFeedback
    errorFeedback,        \* this.errorFeedback
    response,             \* the PromptResponse of the call in progress
    memory, functions, tokenizer, remaining_attempts, \* its other arguments
    result,               \* how that call completed
    error,                \* getErrorFix: the ValidationError it is given
    fix                   \* getErrorFix: how it completed

vars == <<ctor, schema, missingJsonFeedback, errorFeedback, response, memory,
          functions, tokenizer, remaining_attempts, result, error, fix>>

\* Longest response text, in segments (prose runs and JSON objects).
MaxSegs == 2
\* Largest remaining_attempts a caller passes.
MaxAttempts == 1

(***************************************************************************)
(* JavaScript values                                                       *)
(***************************************************************************)
Undefined == [t |-> "undefined"]
Null == [t |-> "null"]
Str(s) == [t |-> "string", v |-> s]

\* Completion records of a JavaScript call.
Return(v) == [completion |-> "return", value |-> v]
Throw == [completion |-> "throw"]

\* a ?? b
Coalesce(a, b) == IF a.t \in {"undefined", "null"} THEN b ELSE a

RECURSIVE join(_, _)
\* Array.prototype.join over an array of strings.
join(parts, sep) ==
    IF parts = <<>> THEN <<>>
    ELSE IF Len(parts) = 1 THEN parts[1]
    ELSE parts[1] \o <<sep>> \o join(Tail(parts), sep)

RECURSIVE split(_, _)
\* String.prototype.split on a one-character separator.
split(s, sep) ==
    IF \A k \in 1..Len(s) : s[k] # sep THEN <<s>>
    ELSE LET k == CHOOSE j \in 1..Len(s) :
                      s[j] = sep /\ \A h \in 1..(j - 1) : s[h] # sep
         IN  <<SubSeq(s, 1, k - 1)>> \o split(SubSeq(s, k + 1, Len(s)), sep)

RECURSIVE trim(_)
\* String.prototype.trim.
trim(s) ==
    IF s = <<>> THEN s
    ELSE IF s[1] = " " THEN trim(Tail(s))
    ELSE IF s[Len(s)] = " " THEN trim(SubSeq(s, 1, Len(s) - 1))
    ELSE s

(***************************************************************************)
(* JSON objects and response texts                                         *)
(***************************************************************************)
\* A parsed JSON object: its content, and whether some of its properties
\* hold empty values.
ObjectIds == {"a", "b"}
Objects == [t : {"object"}, id : ObjectIds, empties : BOOLEAN]

Prose == [seg |-> "prose"]
Json(o) == [seg |-> "json", obj |-> o]
Segments == {Prose} \cup {Json(o) : o \in Objects}
Texts == UNION {[1..n -> Segments] : n \in 0..MaxSegs}

\* Response.parseAllObjects: the JSON objects of the text, in order.
parseAllObjects(text) ==
    LET found == SelectSeq(text, LAMBDA s : s.seg = "json")
    IN  [i \in 1..Len(found) |-> found[i].obj]

\* Response.removeEmptyValuesFromObject: a copy without the empty values.
removeEmptyValuesFromObject(obj) == [obj EXCEPT !.empties = FALSE]

StrippedObjects == {removeEmptyValuesFromObject(o) : o \in Objects}

\* response.message: a string, or an object with an optional content.
Contents == {Null, Undefined} \cup {Str(x) : x \in Texts}
Messages == {[typeof |-> "string", text |-> x] : x \in Texts}
            \cup {[typeof |-> "object", content |-> c] : c \in Contents}

(***************************************************************************)
(* The schema validator's error descriptors                                *)
(***************************************************************************)
ValidationError(name, property, argument, message) ==
    [name |-> name, property |-> property, argument |-> argument,
     message |-> message]

Arguments ==
    { Undefined, Null, Str(<<"number">>),
      [t |-> "array", v |-> <<"string", "null">>],
      [t |-> "object", key |-> "type", val |-> "string"] }

ErrorNames == {"type", "anyOf", "additionalProperties", "required", "format",
               "uniqueItems", "enum", "const", "minimum"}

ErrorMessages ==
    { <<"contains duplicate item">>,
      <<"is not one of enum values", ":", " ", "red", ",", "blue">>,
      <<"is not one of enum values", ":", " ", "a", ":", "b", ",", "c", " ">> }

Properties == {<<"instance">>, <<"instance.age">>}

ValidationErrors ==
    { ValidationError(n, p, a, m) :
        n \in ErrorNames, p \in Properties, a \in Arguments, m \in ErrorMessages }

\* JSON.stringify of a descriptor's argument that is an object or null.
stringify(argument) ==
    IF argument.t = "null" THEN <<"null">>
    ELSE <<"{\"", argument.key, "\":\"", argument.val, "\"}">>


(***************************************************************************)
(* getErrorFix                                                             *)
(***************************************************************************)
\* "Get argument as a string": the three branches on error.argument.
argToString(argument) ==
    IF argument.t = "array"
    THEN Return(join([i \in 1..Len(argument.v) |-> <<argument.v[i]>>], ","))
    ELSE IF argument.t \in {"object", "null"}
    THEN Return(stringify(argument))
    ELSE IF argument.t = "undefined"
    THEN Throw
    ELSE Return(argument.v)

\* error.message.split(':')[1].trim()
enumValues(message) ==
    LET parts == split(message, ":")
    IN  IF Len(parts) < 2 THEN Throw ELSE Return(trim(parts[2]))

getErrorFix(e) ==
    LET arg == argToString(e.argument)
    IN  IF arg.completion = "throw" THEN Throw
        ELSE CASE e.name = "type" ->
                    Return(<<"convert \"">> \o e.property \o <<"\" to a ">>
                           \o arg.value)
               [] e.name = "anyOf" ->
                    Return(<<"convert \"">> \o e.property
                           \o <<"\" to one of the allowed types: ">> \o arg.value)
               [] e.name = "additionalProperties" ->
                    Return(<<"remove the \"">> \o arg.value
                           \o <<"\" property from \"">> \o e.property \o <<"\"">>)
               [] e.name = "required" ->
                    Return(<<"add the \"">> \o arg.value
                           \o <<"\" property to \"">> \o e.property \o <<"\"">>)
               [] e.name = "format" ->
                    Return(<<"change the \"">> \o e.property
                           \o <<"\" property to be a ">> \o arg.value)
               [] e.name = "uniqueItems" ->
                    Return(<<"remove all duplicate items from \"">> \o e.property
                           \o <<"\"">>)
               [] e.name = "enum" ->
                    LET values == enumValues(e.message)
                    IN  IF values.completion = "throw" THEN Throw
                        ELSE Return(<<"change the \"">> \o e.property
                                    \o <<"\" property to be one of these values: ">>
                                    \o values.value)
               [] e.name = "const" ->
                    Return(<<"change the \"">> \o e.property
                           \o <<"\" property to be ">> \o arg.value)
               [] OTHER ->
                    Return(<<"\"">> \o e.property \o <<"\" ">> \o e.message
                           \o <<". Fix that">>)

(***************************************************************************)
(* The constructor                                                         *)
(***************************************************************************)
DefaultMissingJsonFeedback ==
    <<"No valid JSON objects were found in the response. Return a valid JSON object.">>
DefaultErrorFeedback == <<"The JSON returned had errors. Apply these fixes:">>

constructor(args) ==
    [schema |-> args.schema,
     missingJsonFeedback |->
         Coalesce(args.missingJsonFeedback, Str(DefaultMissingJsonFeedback)).v,
     errorFeedback |-> Coalesce(args.errorFeedback, Str(DefaultErrorFeedback)).v]

\* The error lists the schema validator returns in this model; the empty
\* list is a valid instance.
TypeError == ValidationError("type", <<"instance.age">>, Str(<<"number">>),
                             <<"is not of a type(s) number">>)
RequiredError == ValidationError("required", <<"instance">>, Str(<<"id">>),
                                 <<"requires property \"id\"">>)
UniqueItemsError == ValidationError("uniqueItems", <<"instance.tags">>,
                                    Undefined, <<"contains duplicate item">>)
SampleErrors ==
    { <<>>, <<TypeError>>, <<RequiredError, TypeError>>, <<UniqueItemsError>>,
      <<TypeError, UniqueItemsError>> }

\* A schema is known by what the validator answers for each instance.
Schemas == {[t |-> "schema", verdict |-> f] :
                f \in [StrippedObjects -> SampleErrors]}

CtorArgs ==
    [schema : {Undefined} \cup Schemas,
     missingJsonFeedback : {Undefined, Str(<<>>), Str(<<"Send JSON.">>)},
     errorFeedback : {Undefined, Str(<<"Fix these:">>)}]

\* new Validator().validate(obj, schema)
validate(obj, s) ==
    LET errors == s.verdict[obj]
    IN  [valid |-> errors = <<>>, errors |-> errors]

(***************************************************************************)
(* validateResponse                                                        *)
(***************************************************************************)
Valid(value) == [type |-> "Validation", valid |-> TRUE, value |-> value]
Invalid(feedback) == [type |-> "Validation", valid |-> FALSE, feedback |-> feedback]

\* typeof message === 'string' ? message : message.content ?? ''
textOf(message) ==
    IF message.typeof = "string" THEN message.text
    ELSE Coalesce(message.content, Str(<<>>)).v

\* typeof message === 'object' && message.content == null
isExplicitNull_looseEquality(message) ==
    message.typeof = "object" /\ message.content.t \in {"null", "undefined"}

\* the test made on the text, which ?? has already turned into ''
isExplicitNull_onText(message) ==
    message.typeof = "object" /\ Str(textOf(message)).t = "null"

\* typeof message === 'object' && message.content === null
isExplicitNull(message) ==
    message.typeof = "object" /\ message.content.t = "null"

\* `${this.errorFeedback}\n${errors!.map(e => this.getErrorFix(e)).join('\n')}`
errorsFeedback(self, errors) ==
    IF errors.t = "undefined" THEN Throw
    ELSE LET fixes == [k \in 1..Len(errors.v) |-> getErrorFix(errors.v[k])]
         IN  IF \E k \in 1..Len(fixes) : fixes[k].completion = "throw"
             THEN Throw
             ELSE Return(Invalid(
                      self.errorFeedback \o <<"\n">>
                      \o join([k \in 1..Len(fixes) |-> fixes[k].value], "\n")))

RECURSIVE validateAgainstSchema_lastOnly(_, _, _, _)
\* the loop left at the first candidate that fails
validateAgainstSchema_lastOnly(self, parsed, i, errors) ==
    IF i < 1 THEN errorsFeedback(self, errors)
    ELSE LET obj == removeEmptyValuesFromObject(parsed[i])
             res == validate(obj, self.schema)
         IN  IF res.valid THEN Return(Valid(obj))
             ELSE validateAgainstSchema_lastOnly(self, parsed, 0,
                      IF errors.t = "undefined"
                      THEN [t |-> "array", v |-> res.errors] ELSE errors)

RECURSIVE validateAgainstSchema_unstripped(_, _, _, _)
\* the candidate returned as parsed, not as validated
validateAgainstSchema_unstripped(self, parsed, i, errors) ==
    IF i < 1 THEN errorsFeedback(self, errors)
    ELSE LET obj == removeEmptyValuesFromObject(parsed[i])
             res == validate(obj, self.schema)
         IN  IF res.valid THEN Return(Valid(parsed[i]))
             ELSE validateAgainstSchema_unstripped(self, parsed, i - 1,
                      IF errors.t = "undefined"
                      THEN [t |-> "array", v |-> res.errors] ELSE errors)

RECURSIVE validateAgainstSchema(_, _, _, _)
\* for (let i = parsed.length - 1; i >= 0; i--) { ... } and the return after it
validateAgainstSchema(self, parsed, i, errors) ==
    IF i < 1 THEN errorsFeedback(self, errors)
    ELSE LET obj == removeEmptyValuesFromObject(parsed[i])
             res == validate(obj, self.schema)
         IN  IF res.valid THEN Return(Valid(obj))
             ELSE validateAgainstSchema(self, parsed, i - 1,
                      IF errors.t = "undefined"
                      THEN [t |-> "array", v |-> res.errors] ELSE errors)

\* the last object, with its empty values removed
lastObject_stripped(parsed) == removeEmptyValuesFromObject(parsed[Len(parsed)])

\* parsed[parsed.length - 1]
lastObject(parsed) == parsed[Len(parsed)]

\* a validator that gives up on the last attempt
validateResponse_lastAttempt(self, mem, fns, tok, resp, attempts) ==
    LET message == resp.message
        parsed == parseAllObjects(textOf(message))
    IN  IF parsed = <<>> \/ attempts = 0
        THEN IF isExplicitNull(message) THEN Return(Valid(Null))
             ELSE Return(Invalid(self.missingJsonFeedback))
        ELSE IF self.schema.t # "undefined"
        THEN validateAgainstSchema(self, parsed, Len(parsed), Undefined)
        ELSE Return(Valid(lastObject(parsed)))

validateResponse(self, mem, fns, tok, resp, attempts) ==
    LET message == resp.message
        parsed == parseAllObjects(textOf(message))
    IN  IF parsed = <<>>
        THEN IF isExplicitNull(message) THEN Return(Valid(Null))
             ELSE Return(Invalid(self.missingJsonFeedback))
        ELSE IF self.schema.t # "undefined"
        THEN validateAgainstSchema(self, parsed, Len(parsed), Undefined)
        ELSE Return(Valid(lastObject(parsed)))

(***************************************************************************)
(* The state machine                                                       *)
(***************************************************************************)
This == [schema |-> schema, missingJsonFeedback |-> missingJsonFeedback,
         errorFeedback |-> errorFeedback]

NoResponse == [message |-> [typeof |-> "undefined"]]
NoCompletion == [completion |-> "none"]
NoError == [name |-> "none"]

\* The arguments validateResponse does not read.
Contexts == { [memory |-> "memory1", functions |-> "functions1", tokenizer |-> "tokenizer1"],
              [memory |-> "memory2", functions |-> "functions2", tokenizer |-> "tokenizer2"] }
NoContext == [memory |-> "none", functions |-> "none", tokenizer |-> "none"]
Attempts == 0..MaxAttempts

Idle ==
    /\ response = NoResponse
    /\ result = NoCompletion

Constructed(args) ==
    /\ ctor = args
    /\ schema = constructor(args).schema
    /\ missingJsonFeedback = constructor(args).missingJsonFeedback
    /\ errorFeedback = constructor(args).errorFeedback

Init ==
    /\ \E args \in CtorArgs : Constructed(args)
    /\ response = NoResponse
    /\ memory = NoContext.memory
    /\ functions = NoContext.functions
    /\ tokenizer = NoContext.tokenizer
    /\ remaining_attempts = 0
    /\ result = NoCompletion
    /\ error = NoError
    /\ fix = NoCompletion

\* One call of validateResponse, from entry to its return or throw.
ValidateResponse ==
    /\ Idle
    /\ error = NoError
    /\ \E m \in Messages, c \in Contexts, n \in Attempts :
          /\ response' = [message |-> m]
          /\ memory' = c.memory
          /\ functions' = c.functions
          /\ tokenizer' = c.tokenizer
          /\ remaining_attempts' = n
          /\ result' = validateResponse(This, c.memory, c.functions, c.tokenizer,
                                        [message |-> m], n)
    /\ UNCHANGED <<ctor, schema, missingJsonFeedback, errorFeedback, error, fix>>

\* The caller takes the settled promise (or the exception); the instance is
\* then free for the next call.
Await ==
    /\ result # NoCompletion
    /\ response' = NoResponse
    /\ memory' = NoContext.memory
    /\ functions' = NoContext.functions
    /\ tokenizer' = NoContext.tokenizer
    /\ remaining_attempts' = 0
    /\ result' = NoCompletion
    /\ UNCHANGED <<ctor, schema, missingJsonFeedback, errorFeedback, error, fix>>

Next == ValidateResponse \/ Await

Spec == Init /\ [][Next]_vars

(***************************************************************************)
(* getErrorFix on its own, over every error descriptor                     *)
(***************************************************************************)
InitFix ==
    /\ Constructed([schema |-> Undefined, missingJsonFeedback |-> Undefined,
                    errorFeedback |-> Undefined])
    /\ response = NoResponse
    /\ memory = NoContext.memory
    /\ functions = NoContext.functions
    /\ tokenizer = NoContext.tokenizer
    /\ remaining_attempts = 0
    /\ result = NoCompletion
    /\ error \in ValidationErrors
    /\ fix = NoCompletion

GetErrorFix ==
    /\ error # NoError
    /\ fix = NoCompletion
    /\ fix' = getErrorFix(error)
    /\ UNCHANGED <<ctor, schema, missingJsonFeedback, errorFeedback, response,
                   memory, functions, tokenizer, remaining_attempts, result, error>>

NextFix == GetErrorFix

SpecFix == InitFix /\ [][NextFix]_vars

(***************************************************************************)
(* Properties                                                              *)
(***************************************************************************)
Called == result # NoCompletion
Message == response.message
Parsed == parseAllObjects(textOf(Message))
Returned == result.completion = "return"

\* The validator accepts the i-th extracted object once its empty values
\* are removed.
Accepted(i) == validate(removeEmptyValuesFromObject(Parsed[i]), schema).valid
LatestAccepted ==
    CHOOSE i \in 1..Len(Parsed) :
        Accepted(i) /\ \A j \in (i + 1)..Len(Parsed) : ~Accepted(j)

\* The feedback table of the specification, as one total function of the
\* descriptor: the argument in its string form, and for enum the text of
\* the message after its first colon.
argText(argument) ==
    CASE argument.t = "array" ->
            join([i \in 1..Len(argument.v) |-> <<argument.v[i]>>], ",")
      [] argument.t = "object" ->
            <<"{\"", argument.key, "\":\"", argument.val, "\"}">>
      [] argument.t = "string" -> argument.v
      [] OTHER -> <<argument.t>>

HasColon(message) == \E k \in 1..Len(message) : message[k] = ":"
afterFirstColon(message) ==
    IF ~HasColon(message) THEN <<>>
    ELSE LET k == CHOOSE j \in 1..Len(message) :
                      message[j] = ":" /\ \A h \in 1..(j - 1) : message[h] # ":"
         IN  SubSeq(message, k + 1, Len(message))

enumLine(e) ==
    <<"change the \"">> \o e.property
    \o <<"\" property to be one of these values: ">>
    \o trim(afterFirstColon(e.message))

feedbackLine(e) ==
    CASE e.name = "type" ->
            <<"convert \"">> \o e.property \o <<"\" to a ">> \o argText(e.argument)
      [] e.name = "anyOf" ->
            <<"convert \"">> \o e.property
            \o <<"\" to one of the allowed types: ">> \o argText(e.argument)
      [] e.name = "additionalProperties" ->
            <<"remove the \"">> \o argText(e.argument)
            \o <<"\" property from \"">> \o e.property \o <<"\"">>
      [] e.name = "required" ->
            <<"add the \"">> \o argText(e.argument)
            \o <<"\" property to \"">> \o e.property \o <<"\"">>
      [] e.name = "format" ->
            <<"change the \"">> \o e.property
            \o <<"\" property to be a ">> \o argText(e.argument)
      [] e.name = "uniqueItems" ->
            <<"remove all duplicate items from \"">> \o e.property \o <<"\"">>
      [] e.name = "enum" -> enumLine(e)
      [] e.name = "const" ->
            <<"change the \"">> \o e.property
            \o <<"\" property to be ">> \o argText(e.argument)
      [] OTHER ->
            <<"\"">> \o e.property \o <<"\" ">> \o e.message \o <<". Fix that">>

\* C1: with a schema and at least one extracted object, none of which
\* validates, the call returns Invalid and its feedback is the error-feedback
\* header, a newline, and the lines of the LAST object's error descriptors
\* only, in the validator's order, newline-joined.
InvalidFeedbackFromLastObject ==
    (/\ Called
     /\ schema # Undefined
     /\ Parsed # <<>>
     /\ \A i \in 1..Len(Parsed) : ~Accepted(i))
    => LET last == removeEmptyValuesFromObject(Parsed[Len(Parsed)])
           errors == validate(last, schema).errors
       IN  result = Return(Invalid(
               errorFeedback \o <<"\n">>
               \o join([k \in 1..Len(errors) |-> feedbackLine(errors[k])], "\n")))

\* C2: with a schema and at least one extracted object, if some candidate
\* validates after its empty values are removed, the call returns Valid with
\* the stripped form of the validating candidate that comes latest in the
\* text, whatever the earlier objects are.
ValidIsLatestAccepted ==
    (/\ Called
     /\ schema # Undefined
     /\ Parsed # <<>>
     /\ \E i \in 1..Len(Parsed) : Accepted(i))
    => result = Return(Valid(removeEmptyValuesFromObject(Parsed[LatestAccepted])))

\* C2 witness: the last object is rejected and an earlier one, which holds
\* empty values, is accepted and returned stripped.
ValidIsLatestAccepted_witness ==
    /\ Called
    /\ schema # Undefined
    /\ Len(Parsed) = 2
    /\ ~Accepted(2)
    /\ Accepted(1)
    /\ Parsed[1].empties
    /\ result = Return(Valid(removeEmptyValuesFromObject(Parsed[1])))

\* C3: validateResponse never raises: every call ends in a returned Valid or
\* Invalid result, whatever error descriptors the schema validator gives.
NeverRaises == Called => Returned

\* C4: when no JSON object is extracted and the message is not an
\* explicit-null message, the call returns Invalid whose feedback is the
\* missingJsonFeedback given at construction, or the default text when none
\* was given, with or without a schema.
MissingJsonIsInvalid ==
    (/\ Called
     /\ Parsed = <<>>
     /\ ~(Message.typeof = "object" /\ Message.content = Null))
    => result = Return(Invalid(
           IF ctor.missingJsonFeedback = Undefined
           THEN DefaultMissingJsonFeedback
           ELSE ctor.missingJsonFeedback.v))

\* C4 witness: a structured message with no content at all, on a validator
\* with a schema that was given the empty string as missingJsonFeedback.
MissingJsonIsInvalid_witness ==
    /\ Called
    /\ Message.typeof = "object"
    /\ Message.content = Undefined
    /\ schema # Undefined
    /\ ctor.missingJsonFeedback = Str(<<>>)
    /\ result = Return(Invalid(<<>>))

\* C5: when no JSON object is extracted and the message is a structured
\* message whose content is null, the call returns Valid with value null and
\* no feedback, with or without a schema.
ExplicitNullIsValidNull ==
    (/\ Called
     /\ Parsed = <<>>
     /\ Message.typeof = "object"
     /\ Message.content = Null)
    => /\ Returned
       /\ result.value = Valid(Null)
       /\ "feedback" \notin DOMAIN result.value

\* C5 witness: a null-content message on a validator with a schema.
ExplicitNullIsValidNull_witness ==
    /\ Called
    /\ Message.typeof = "object"
    /\ Message.content = Null
    /\ schema # Undefined
    /\ result = Return(Valid(Null))

\* C6: without a schema and with at least one extracted object, the call
\* returns Valid with the last extracted object exactly as parsed (its
\* empty values kept), whatever the earlier objects are.
NoSchemaReturnsLastAsParsed ==
    (/\ Called
     /\ schema = Undefined
     /\ Parsed # <<>>)
    => result = Return(Valid(Parsed[Len(Parsed)]))

\* C6 witness: two different objects, the last one with empty values, which
\* the result still holds.
NoSchemaReturnsLastAsParsed_witness ==
    /\ Called
    /\ schema = Undefined
    /\ Len(Parsed) = 2
    /\ Parsed[1].id # Parsed[2].id
    /\ Parsed[2].empties
    /\ Returned
    /\ result.value.value = Parsed[2]
    /\ result.value.value.empties

\* C7: for an enum descriptor (its argument present, its message holding a
\* colon) the feedback line lists the whole text of the raw message after
\* its first colon, trimmed, further colons included.
EnumListsAllAfterFirstColon ==
    (/\ fix # NoCompletion
     /\ error.name = "enum"
     /\ error.argument # Undefined
     /\ HasColon(error.message))
    => fix = Return(enumLine(error))

\* C8: getErrorFix maps every error descriptor to the one line its kind
\* determines: the template of the kind, filled with the property path and
\* the argument in its string form, or the fallback line for any other kind.
EveryDescriptorHasItsLine ==
    fix # NoCompletion => fix = Return(feedbackLine(error))

\* C9: the result of a call is a function of the response message and of
\* the construction-time configuration only: no call changes schema,
\* missingJsonFeedback or errorFeedback, and the result a call leaves is the
\* result of the same message under every other memory, functions, tokenizer
\* and remaining_attempts.
ResultDependsOnMessageAndConfigOnly ==
    [][/\ schema' = schema
       /\ missingJsonFeedback' = missingJsonFeedback
       /\ errorFeedback' = errorFeedback
       /\ (result' # NoCompletion =>
             \A c \in Contexts, n \in Attempts :
                 validateResponse(This', c.memory, c.functions, c.tokenizer,
                                  response', n) = result')]_vars

\* C9 witness: a call made with no attempts left and the second context,
\* which ended Invalid on a schema error.
ResultDependsOnMessageAndConfigOnly_witness ==
    /\ Called
    /\ remaining_attempts = 0
    /\ memory = "memory2"
    /\ schema # Undefined
    /\ Parsed # <<>>
    /\ Returned
    /\ ~result.value.valid

\* C10: with a schema, a Valid result carries either null (only when no
\* object was extracted from an explicit-null message) or the stripped form
\* of a candidate the validator accepted; never an unstripped or rejected
\* candidate.
ValidValueIsStrippedAndAccepted ==
    (/\ Called
     /\ schema # Undefined
     /\ Returned
     /\ result.value.valid)
    => \/ /\ result.value.value = Null
          /\ Parsed = <<>>
          /\ Message.typeof = "object"
          /\ Message.content = Null
       \/ /\ result.value.value \in StrippedObjects
          /\ \E i \in 1..Len(Parsed) :
                /\ result.value.value = removeEmptyValuesFromObject(Parsed[i])
                /\ Accepted(i)

\* C10 witness: the last object holds empty values and is accepted once
\* they are removed; the value returned is the stripped one.
ValidValueIsStrippedAndAccepted_witness ==
    /\ Called
    /\ schema # Undefined
    /\ Parsed # <<>>
    /\ Parsed[Len(Parsed)].empties
    /\ Accepted(Len(Parsed))
    /\ Returned
    /\ result.value.valid
    /\ result.value.value # Parsed[Len(Parsed)]

====
